---- MODULE Spec2Model ----
(***************************************************************************)
(* Model of the UnionFind structure of src/src/lib.rs: a parent vector, a  *)
(* size vector and a component counter, with the operations new, union,    *)
(* find, connected, components and size.  Each public method is one        *)
(* action; the loops of find are computed by recursive operators that      *)
(* follow the code statement by statement.                                 *)
(*                                                                         *)
(* A Rust Vec index out of range panics.  A panic unwinds out of the       *)
(* method and leaves the fields as the method had written them so far; it  *)
(* is recorded in `panicked` and no later call is made on the structure.   *)
(*                                                                         *)
(* Ghost state, not fields of the struct: `n` (the argument of new), `abs` *)
(* (the partition generated by the union calls that completed), `last`     *)
(* (the last call, its arguments and what it returned) and `pre` (the      *)
(* fields as they were when the last call started).  `frame` holds the     *)
(* position and the locals of a method that is being executed; it is Idle  *)
(* between calls, and only StepSpec, which follows find and union          *)
(* statement by statement, ever moves it.                                  *)
(***************************************************************************)
EXTENDS Integers, FiniteSets, Sequences, TLC

\* Largest universe size passed to new.
MaxN == 4

VARIABLES parent, size, components, panicked, n, abs, last, pre, frame

vars == <<parent, size, components, panicked, n, abs, last, pre, frame>>

\* Vec::len of a vector modelled as a function on 0..len-1.
len(v) == Cardinality(DOMAIN v)

\* The argument values a caller may pass for a universe of m elements:
\* every in-range index and the first out-of-range one.
Args(m) == 0..m

\* new with the parent vector built as vec![0; n].
new_zeroed(m) ==
    [components |-> m,
     parent     |-> [e \in 0..(m - 1) |-> 0],
     size       |-> [e \in 0..(m - 1) |-> 1]]

\* new with both vectors built over the inclusive range 0..=n.
new_inclusive(m) ==
    [components |-> m,
     parent     |-> [e \in 0..m |-> e],
     size       |-> [e \in 0..m |-> 1]]

\* UnionFind::new(n): parent = (0..n).collect(), size = vec![1; n].
new(m) ==
    [components |-> m,
     parent     |-> [e \in 0..(m - 1) |-> e],
     size       |-> [e \in 0..(m - 1) |-> 1]]

\* The root walk with `if` in place of `while`: a single step.
FindRoot_onestep(par, r) ==
    IF r \notin DOMAIN par THEN [ok |-> FALSE]
    ELSE IF r = par[r] THEN [ok |-> TRUE, r |-> r]
    ELSE [ok |-> TRUE, r |-> par[r]]

\* First loop of find: `while r != self.parent[r] { r = self.parent[r]; }`.
\* The index expression self.parent[r] panics when r is out of range.
RECURSIVE FindRoot(_, _)
FindRoot(par, r) ==
    IF r \notin DOMAIN par THEN [ok |-> FALSE]
    ELSE IF r = par[r] THEN [ok |-> TRUE, r |-> r]
    ELSE FindRoot(par, par[r])

\* Path compression that writes `self.parent[p] = p`.
RECURSIVE Compress_self(_, _, _)
Compress_self(par, p, r) ==
    IF p = par[p] THEN par
    ELSE Compress_self([par EXCEPT ![p] = p], par[p], r)

\* Path compression with `if` in place of `while`: only p is rewritten.
Compress_once(par, p, r) ==
    IF p = par[p] THEN par ELSE [par EXCEPT ![p] = r]

\* Second loop of find (path compression):
\* `while p != self.parent[p] { let pp = self.parent[p]; self.parent[p] = r; p = pp; }`.
RECURSIVE Compress(_, _, _)
Compress(par, p, r) ==
    IF p = par[p] THEN par
    ELSE Compress([par EXCEPT ![p] = r], par[p], r)

\* find that returns its argument in place of the root.
find_retarg(par, p) ==
    LET w == FindRoot(par, p) IN
    IF ~w.ok THEN [ok |-> FALSE, parent |-> par]
    ELSE [ok |-> TRUE, parent |-> Compress(par, p, w.r), r |-> p]

\* find(p) on parent vector par: the outcome, the parent vector it leaves
\* and the value returned.
find(par, p) ==
    LET w == FindRoot(par, p) IN
    IF ~w.ok THEN [ok |-> FALSE, parent |-> par]
    ELSE [ok |-> TRUE, parent |-> Compress(par, p, w.r), r |-> w.r]

\* The link with the parent write of the else branch left out.
Link_nowrite(par, sz, comps, i, j) ==
    IF sz[i] < sz[j]
    THEN [ok |-> TRUE,
          parent |-> [par EXCEPT ![i] = j],
          size |-> [sz EXCEPT ![j] = sz[j] + sz[i]],
          components |-> comps - 1]
    ELSE [ok |-> TRUE,
          parent |-> par,
          size |-> [sz EXCEPT ![i] = sz[i] + sz[j]],
          components |-> comps - 1]

\* The link with the decrement of components left out.
Link_nodec(par, sz, comps, i, j) ==
    IF sz[i] < sz[j]
    THEN [ok |-> TRUE,
          parent |-> [par EXCEPT ![i] = j],
          size |-> [sz EXCEPT ![j] = sz[j] + sz[i]],
          components |-> comps]
    ELSE [ok |-> TRUE,
          parent |-> [par EXCEPT ![j] = i],
          size |-> [sz EXCEPT ![i] = sz[i] + sz[j]],
          components |-> comps]

\* The link with the size update left out.
Link_nosize(par, sz, comps, i, j) ==
    IF sz[i] < sz[j]
    THEN [ok |-> TRUE,
          parent |-> [par EXCEPT ![i] = j],
          size |-> sz,
          components |-> comps - 1]
    ELSE [ok |-> TRUE,
          parent |-> [par EXCEPT ![j] = i],
          size |-> sz,
          components |-> comps - 1]

\* The link with `<=` in place of `<` in the comparison of the sizes.
Link_le(par, sz, comps, i, j) ==
    IF sz[i] <= sz[j]
    THEN [ok |-> TRUE,
          parent |-> [par EXCEPT ![i] = j],
          size |-> [sz EXCEPT ![j] = sz[j] + sz[i]],
          components |-> comps - 1]
    ELSE [ok |-> TRUE,
          parent |-> [par EXCEPT ![j] = i],
          size |-> [sz EXCEPT ![i] = sz[i] + sz[j]],
          components |-> comps - 1]

\* The link that stores the merged size at both roots.
Link_bothsize(par, sz, comps, i, j) ==
    IF sz[i] < sz[j]
    THEN [ok |-> TRUE,
          parent |-> [par EXCEPT ![i] = j],
          size |-> [sz EXCEPT ![j] = sz[j] + sz[i], ![i] = sz[j] + sz[i]],
          components |-> comps - 1]
    ELSE [ok |-> TRUE,
          parent |-> [par EXCEPT ![j] = i],
          size |-> [sz EXCEPT ![i] = sz[i] + sz[j], ![j] = sz[i] + sz[j]],
          components |-> comps - 1]

\* The link with `>` in place of `<`: the larger set goes under the smaller.
Link_reversed(par, sz, comps, i, j) ==
    IF sz[i] > sz[j]
    THEN [ok |-> TRUE,
          parent |-> [par EXCEPT ![i] = j],
          size |-> [sz EXCEPT ![j] = sz[j] + sz[i]],
          components |-> comps - 1]
    ELSE [ok |-> TRUE,
          parent |-> [par EXCEPT ![j] = i],
          size |-> [sz EXCEPT ![i] = sz[i] + sz[j]],
          components |-> comps - 1]

\* The two branches of "union by rank" and the decrement of components,
\* for distinct roots i and j.
Link(par, sz, comps, i, j) ==
    IF sz[i] < sz[j]
    THEN [ok |-> TRUE,
          parent |-> [par EXCEPT ![i] = j],
          size |-> [sz EXCEPT ![j] = sz[j] + sz[i]],
          components |-> comps - 1]
    ELSE [ok |-> TRUE,
          parent |-> [par EXCEPT ![j] = i],
          size |-> [sz EXCEPT ![i] = sz[i] + sz[j]],
          components |-> comps - 1]

\* union with the early return `if i == j { return; }` left out.
union_noreturn(par, sz, comps, p, q) ==
    LET fi == find(par, p) IN
    IF ~fi.ok
    THEN [ok |-> FALSE, parent |-> fi.parent, size |-> sz, components |-> comps]
    ELSE LET fj == find(fi.parent, q) IN
         IF ~fj.ok
         THEN [ok |-> FALSE, parent |-> fj.parent, size |-> sz, components |-> comps]
         ELSE Link(fj.parent, sz, comps, fi.r, fj.r)

\* union(p, q): find(p), then find(q) on the vector find(p) left, the early
\* return when the roots are equal, then the link.
union(par, sz, comps, p, q) ==
    LET fi == find(par, p) IN
    IF ~fi.ok
    THEN [ok |-> FALSE, parent |-> fi.parent, size |-> sz, components |-> comps]
    ELSE LET fj == find(fi.parent, q) IN
         IF ~fj.ok
         THEN [ok |-> FALSE, parent |-> fj.parent, size |-> sz, components |-> comps]
         ELSE IF fi.r = fj.r
              THEN [ok |-> TRUE, parent |-> fj.parent, size |-> sz, components |-> comps]
              ELSE Link(fj.parent, sz, comps, fi.r, fj.r)

\* connected that answers false for an unknown q in place of indexing.
connected_lenient(par, p, q) ==
    LET fp == find(par, p) IN
    IF ~fp.ok THEN [ok |-> FALSE, parent |-> fp.parent]
    ELSE IF q \notin DOMAIN par
         THEN [ok |-> TRUE, parent |-> fp.parent, ret |-> FALSE]
         ELSE LET fq == find(fp.parent, q) IN
              [ok |-> TRUE, parent |-> fq.parent, ret |-> (fp.r = fq.r)]

\* connected(p, q): `self.find(p) == self.find(q)`, left operand first.
connected(par, p, q) ==
    LET fp == find(par, p) IN
    IF ~fp.ok THEN [ok |-> FALSE, parent |-> fp.parent]
    ELSE LET fq == find(fp.parent, q) IN
         IF ~fq.ok THEN [ok |-> FALSE, parent |-> fq.parent]
         ELSE [ok |-> TRUE, parent |-> fq.parent, ret |-> (fp.r = fq.r)]

\* The abstract partition after adding the pair (p, q): the blocks of p and
\* q are replaced by their union.
Merge(part, p, q) ==
    LET bp == CHOOSE b \in part : p \in b
        bq == CHOOSE b \in part : q \in b
    IN (part \ {bp, bq}) \cup {bp \cup bq}

\* The frame of the method being executed, for the runs that follow a
\* method statement by statement: the position pc, the method and its
\* arguments, the locals p (cur) and r of find, the root i that the first
\* find of union or connected returned, whether the second find is running,
\* and the number of iterations the current loop has made.  Idle: no method
\* is being executed.
Idle ==
    [pc |-> "idle", op |-> "none", p |-> 0, q |-> 0, cur |-> 0, r |-> 0,
     i |-> 0, second |-> FALSE, iter |-> 0]

\* The fields as a record, kept in `pre` when a call starts.
Fields == [parent |-> parent, size |-> size, components |-> components]

Init ==
    \E m \in 0..MaxN :
        /\ n = m
        /\ parent = new(m).parent
        /\ size = new(m).size
        /\ components = new(m).components
        /\ panicked = FALSE
        /\ abs = {{e} : e \in 0..(m - 1)}
        /\ last = [op |-> "new", p |-> m, q |-> m, ret |-> <<>>]
        /\ pre = [parent |-> new(m).parent, size |-> new(m).size,
                  components |-> new(m).components]
        /\ frame = Idle

CallFind ==
    /\ ~panicked
    /\ \E p \in Args(n) :
         LET f == find(parent, p) IN
         /\ parent' = f.parent
         /\ panicked' = ~f.ok
         /\ last' = [op |-> "find", p |-> p, q |-> p,
                     ret |-> IF f.ok THEN <<f.r>> ELSE <<>>]
    /\ pre' = Fields
    /\ UNCHANGED <<size, components, n, abs, frame>>

CallUnion ==
    /\ ~panicked
    /\ \E p \in Args(n), q \in Args(n) :
         LET u == union(parent, size, components, p, q) IN
         /\ parent' = u.parent
         /\ size' = u.size
         /\ components' = u.components
         /\ panicked' = ~u.ok
         /\ abs' = IF u.ok THEN Merge(abs, p, q) ELSE abs
         /\ last' = [op |-> "union", p |-> p, q |-> q, ret |-> <<>>]
    /\ pre' = Fields
    /\ UNCHANGED <<n, frame>>

CallConnected ==
    /\ ~panicked
    /\ \E p \in Args(n), q \in Args(n) :
         LET c == connected(parent, p, q) IN
         /\ parent' = c.parent
         /\ panicked' = ~c.ok
         /\ last' = [op |-> "connected", p |-> p, q |-> q,
                     ret |-> IF c.ok THEN <<c.ret>> ELSE <<>>]
    /\ pre' = Fields
    /\ UNCHANGED <<size, components, n, abs, frame>>

\* components(): `self.components`.
CallComponents ==
    /\ ~panicked
    /\ last' = [op |-> "components", p |-> 0, q |-> 0, ret |-> <<components>>]
    /\ pre' = Fields
    /\ UNCHANGED <<parent, size, components, panicked, n, abs, frame>>

\* size(): `self.parent.len()`.
CallSize ==
    /\ ~panicked
    /\ last' = [op |-> "size", p |-> 0, q |-> 0, ret |-> <<len(parent)>>]
    /\ pre' = Fields
    /\ UNCHANGED <<parent, size, components, panicked, n, abs, frame>>

Next ==
    \/ CallFind
    \/ CallUnion
    \/ CallConnected
    \/ CallComponents
    \/ CallSize

Spec == Init /\ [][Next]_vars

(***************************************************************************)
(* Balanced merges.  Union by size builds its deepest trees when every     *)
(* merge joins two sets of equal size: a chain of three links needs a set  *)
(* of eight elements.  DeepSpec is the structure under a caller that       *)
(* starts from new(DeepN), merges only representatives of equal-size sets, *)
(* the smaller index first, and calls find on any element.                 *)
(***************************************************************************)

\* Universe size of the balanced-merge runs.
DeepN == 8

DeepInit ==
    /\ n = DeepN
    /\ parent = new(DeepN).parent
    /\ size = new(DeepN).size
    /\ components = new(DeepN).components
    /\ panicked = FALSE
    /\ abs = {{e} : e \in 0..(DeepN - 1)}
    /\ last = [op |-> "new", p |-> DeepN, q |-> DeepN, ret |-> <<>>]
    /\ pre = [parent |-> new(DeepN).parent, size |-> new(DeepN).size,
              components |-> new(DeepN).components]
    /\ frame = Idle

DeepUnion ==
    /\ ~panicked
    /\ \E p \in DOMAIN parent, q \in DOMAIN parent :
         /\ p < q
         /\ parent[p] = p
         /\ parent[q] = q
         /\ size[p] = size[q]
         /\ LET u == union(parent, size, components, p, q) IN
            /\ parent' = u.parent
            /\ size' = u.size
            /\ components' = u.components
            /\ panicked' = ~u.ok
            /\ abs' = IF u.ok THEN Merge(abs, p, q) ELSE abs
            /\ last' = [op |-> "union", p |-> p, q |-> q, ret |-> <<>>]
    /\ pre' = Fields
    /\ UNCHANGED <<n, frame>>

DeepFind ==
    /\ ~panicked
    /\ \E p \in DOMAIN parent :
         LET f == find(parent, p) IN
         /\ parent' = f.parent
         /\ panicked' = ~f.ok
         /\ last' = [op |-> "find", p |-> p, q |-> p,
                     ret |-> IF f.ok THEN <<f.r>> ELSE <<>>]
    /\ pre' = Fields
    /\ UNCHANGED <<size, components, n, abs, frame>>

DeepNext ==
    \/ DeepUnion
    \/ DeepFind

DeepSpec == DeepInit /\ [][DeepNext]_vars

(***************************************************************************)
(* Statement by statement.  StepSpec runs find, union and connected one    *)
(* loop iteration and one assignment at a time, so that the states inside  *)
(* the two loops of find and between the writes of union are states of the *)
(* model.  frame.iter counts the iterations of the loop in progress; it    *)
(* saturates at n + 1.                                                     *)
(***************************************************************************)

\* The assignment `self.parent[p] = r` of the compression loop, with the
\* indices swapped.
CompressWrite_swapped(par, p, r) == [par EXCEPT ![r] = p]

\* The assignment `self.parent[p] = r` of the compression loop.
CompressWrite(par, p, r) == [par EXCEPT ![p] = r]

\* The parent assignment of union: `self.parent[i] = j` when
\* size[i] < size[j], `self.parent[j] = i` otherwise.
AttachWrite(par, sz, i, j) ==
    IF sz[i] < sz[j] THEN [par EXCEPT ![i] = j] ELSE [par EXCEPT ![j] = i]

\* The size assignment of union: `self.size[j] += self.size[i]` when
\* size[i] < size[j], `self.size[i] += self.size[j]` otherwise.
GrowWrite(sz, i, j) ==
    IF sz[i] < sz[j] THEN [sz EXCEPT ![j] = sz[j] + sz[i]]
    ELSE [sz EXCEPT ![i] = sz[i] + sz[j]]

\* One more iteration on the loop counter.
Tick(k) == IF k > n THEN k ELSE k + 1

\* Entry of a method that starts with find(p): `let mut r = p;`.
Enter(name, p, q) ==
    /\ frame.pc = "idle"
    /\ ~panicked
    /\ frame' = [pc |-> "walk", op |-> name, p |-> p, q |-> q, cur |-> p,
                 r |-> p, i |-> 0, second |-> FALSE, iter |-> 0]
    /\ last' = [op |-> name, p |-> p, q |-> q, ret |-> <<>>]
    /\ pre' = Fields
    /\ UNCHANGED <<parent, size, components, panicked, n, abs>>

StepCallFind == \E p \in Args(n) : Enter("find", p, p)

StepCallUnion == \E p \in Args(n), q \in Args(n) : Enter("union", p, q)

StepCallConnected == \E p \in Args(n), q \in Args(n) : Enter("connected", p, q)

\* One evaluation of `while r != self.parent[r]` and, when it holds, of the
\* body `r = self.parent[r]`; an out-of-range r panics.
StepWalk ==
    /\ frame.pc = "walk"
    /\ IF frame.r \notin DOMAIN parent
       THEN /\ panicked' = TRUE
            /\ frame' = [frame EXCEPT !.pc = "idle"]
       ELSE /\ panicked' = panicked
            /\ IF frame.r # parent[frame.r]
               THEN frame' = [frame EXCEPT !.r = parent[frame.r],
                                           !.iter = Tick(frame.iter)]
               ELSE frame' = [frame EXCEPT !.pc = "compress", !.iter = 0]
    /\ UNCHANGED <<parent, size, components, n, abs, last, pre>>

\* One iteration of the compression loop:
\* `let pp = self.parent[p]; self.parent[p] = r; p = pp;`.
StepCompress ==
    /\ frame.pc = "compress"
    /\ frame.cur \in DOMAIN parent
    /\ frame.cur # parent[frame.cur]
    /\ parent' = CompressWrite(parent, frame.cur, frame.r)
    /\ frame' = [frame EXCEPT !.cur = parent[frame.cur],
                              !.iter = Tick(frame.iter)]
    /\ UNCHANGED <<size, components, panicked, n, abs, last, pre>>

\* Exit of the compression loop and return of r: to the caller of find, to
\* union or connected for their second find, or to the comparison.
StepReturn ==
    /\ frame.pc = "compress"
    /\ frame.cur \in DOMAIN parent
    /\ frame.cur = parent[frame.cur]
    /\ IF frame.op = "find"
       THEN /\ frame' = [frame EXCEPT !.pc = "idle"]
            /\ last' = [last EXCEPT !.ret = <<frame.r>>]
       ELSE IF ~frame.second
       THEN /\ frame' = [frame EXCEPT !.pc = "walk", !.i = frame.r,
                                      !.second = TRUE, !.cur = frame.q,
                                      !.r = frame.q, !.iter = 0]
            /\ last' = last
       ELSE IF frame.op = "connected"
       THEN /\ frame' = [frame EXCEPT !.pc = "idle"]
            /\ last' = [last EXCEPT !.ret = <<frame.i = frame.r>>]
       ELSE /\ frame' = [frame EXCEPT !.pc = "test"]
            /\ last' = last
    /\ UNCHANGED <<parent, size, components, panicked, n, abs, pre>>

\* union: `if i == j { return; }`, with j the root the second find returned.
StepTest ==
    /\ frame.pc = "test"
    /\ IF frame.i = frame.r
       THEN /\ frame' = [frame EXCEPT !.pc = "idle"]
            /\ abs' = Merge(abs, frame.p, frame.q)
       ELSE /\ frame' = [frame EXCEPT !.pc = "attach"]
            /\ abs' = abs
    /\ UNCHANGED <<parent, size, components, panicked, n, last, pre>>

\* union: the parent assignment of the branch taken.
StepAttach ==
    /\ frame.pc = "attach"
    /\ parent' = AttachWrite(parent, size, frame.i, frame.r)
    /\ frame' = [frame EXCEPT !.pc = "grow"]
    /\ UNCHANGED <<size, components, panicked, n, abs, last, pre>>

\* union: the size assignment of the branch taken.
StepGrow ==
    /\ frame.pc = "grow"
    /\ size' = GrowWrite(size, frame.i, frame.r)
    /\ frame' = [frame EXCEPT !.pc = "dec"]
    /\ UNCHANGED <<parent, components, panicked, n, abs, last, pre>>

\* union: `self.components -= 1;` and the return.
StepDecrement ==
    /\ frame.pc = "dec"
    /\ components' = components - 1
    /\ abs' = Merge(abs, frame.p, frame.q)
    /\ frame' = [frame EXCEPT !.pc = "idle"]
    /\ UNCHANGED <<parent, size, panicked, n, last, pre>>

StepNext ==
    \/ StepCallFind
    \/ StepCallUnion
    \/ StepCallConnected
    \/ StepWalk
    \/ StepCompress
    \/ StepReturn
    \/ StepTest
    \/ StepAttach
    \/ StepGrow
    \/ StepDecrement

StepSpec == Init /\ [][StepNext]_vars

(***************************************************************************)
(* Vocabulary of the properties.                                           *)
(***************************************************************************)

\* The in-range indices of the current structure.
Elems == DOMAIN parent

\* The index reached from x by following parent pointers until a
\* self-pointing index, in at most k steps.
RECURSIVE Follow(_, _, _)
Follow(par, x, k) ==
    IF k = 0 \/ par[x] = x THEN x ELSE Follow(par, par[x], k - 1)

\* The root that the parent chain of x ends in.
Root(par, x) == Follow(par, x, len(par))

\* The elements on the parent chain of x, x and its root included.
RECURSIVE Chain(_, _, _)
Chain(par, x, k) ==
    IF k = 0 \/ par[x] = x THEN {x} ELSE {x} \cup Chain(par, par[x], k - 1)

\* The last call was given an index that is out of range.
BadIndex ==
    /\ last.op \in {"find", "union", "connected"}
    /\ (last.p \notin Elems \/ last.q \notin Elems)

\* p and q lie in the same block of partition part.
SameBlock(part, p, q) == \E b \in part : p \in b /\ q \in b

\* The indices that point to themselves.
Reps(par) == {e \in DOMAIN par : par[e] = e}

\* The last call was `name` and returned normally.
Returned(name) == last.op = name /\ ~panicked

\* C1: after new(n) and any sequence of calls, for all in-range p and q,
\* connected(p, q) returns true iff find(p) and find(q) return the same
\* value iff p and q are in the same block of the partition generated by
\* the pairs passed to union; the value an executed connected call
\* returned agrees with that partition too.
C1_Refinement ==
    /\ \A p, q \in Elems :
         LET c == connected(parent, p, q) IN
         /\ c.ok
         /\ c.ret = (find(parent, p).r = find(parent, q).r)
         /\ c.ret = SameBlock(abs, p, q)
    /\ Returned("connected") => last.ret = <<SameBlock(abs, last.p, last.q)>>
    /\ Returned("find") =>
         \A x \in Elems : SameBlock(abs, last.p, x) = (Root(parent, x) = last.ret[1])

\* C1 witness: a connected call on two different elements returned true
\* while another pair of elements is still in different sets.
C1_Witness ==
    /\ Returned("connected")
    /\ last.p # last.q
    /\ last.ret = <<TRUE>>
    /\ \E x, y \in Elems : ~SameBlock(abs, x, y)

\* C2: in every reachable state components equals the number of indices e
\* with parent[e] = e, which is the number of distinct sets; components()
\* returns that number.
C2_ComponentsCountsRoots ==
    /\ components = Cardinality(Reps(parent))
    /\ components = Cardinality(abs)
    /\ Returned("components") => last.ret = <<Cardinality(Reps(parent))>>

\* C2 witness: components() was called after at least two merges that left
\* at least two sets.
C2_Witness ==
    /\ Returned("components")
    /\ components >= 2
    /\ components <= n - 2

\* C3: components never increases; a union call that returns decreases it
\* by exactly 1 when its arguments were in different sets before the call
\* and leaves it unchanged when they were in the same set (p = q included);
\* no other call changes it.
C3_ComponentsMonotone ==
    /\ components <= pre.components
    /\ Returned("union") =>
         IF Root(pre.parent, last.p) # Root(pre.parent, last.q)
         THEN components = pre.components - 1
         ELSE components = pre.components
    /\ last.op # "union" => components = pre.components

\* C3 witness: a union of two sets, not the first one, decreased components.
C3_Witness ==
    /\ Returned("union")
    /\ Root(pre.parent, last.p) # Root(pre.parent, last.q)
    /\ components = pre.components - 1
    /\ pre.components < n

\* C4: immediately after new(n), for every n >= 0: components = n, both
\* vectors have length n, parent[i] = i and size[i] = 1 for all i,
\* connected(i, i) is true and connected(i, j) is false for i # j.
C4_Fresh ==
    last.op = "new" =>
        /\ components = n
        /\ len(parent) = n
        /\ len(size) = n
        /\ \A i \in 0..(n - 1) : parent[i] = i /\ size[i] = 1
        /\ \A i, j \in 0..(n - 1) :
             /\ connected(parent, i, j).ok
             /\ connected(parent, i, j).ret = (i = j)

\* C4 witness: a fresh structure with at least two elements.
C4_Witness == last.op = "new" /\ n >= 2 /\ len(parent) = n

\* C5 as stated: a call that fails on an out-of-range index leaves parent,
\* size and components exactly as they were before the call, whichever
\* argument was out of range.
C5_FailsAtomically ==
    panicked => /\ parent = pre.parent
                /\ size = pre.size
                /\ components = pre.components

\* C5 amended: a call that fails on an out-of-range index leaves size,
\* components and the representative of every element as they were.  parent
\* is as it was when the first (or only) argument is out of range; when p
\* is in range and only q is out of range, find(p) has run and parent
\* differs from before at most on the elements of p's parent chain, which
\* then point to p's root.
C5_FailureEffect ==
    panicked =>
        /\ size = pre.size
        /\ components = pre.components
        /\ DOMAIN parent = DOMAIN pre.parent
        /\ \A x \in Elems : Root(parent, x) = Root(pre.parent, x)
        /\ last.p \notin Elems => parent = pre.parent
        /\ last.p \in Elems =>
             \A x \in Elems :
                IF x \in Chain(pre.parent, last.p, len(parent)) /\ pre.parent[x] # x
                THEN parent[x] = Root(pre.parent, last.p)
                ELSE parent[x] = pre.parent[x]

\* C5 witness: union(p, q) failed on q after find(p) had rewritten parent.
C5_Witness ==
    /\ panicked
    /\ last.op = "union"
    /\ last.p \in Elems
    /\ last.q \notin Elems
    /\ parent # pre.parent

\* C6: in every reachable state (n = 0 included) a find, union or connected
\* call with an index >= n ends in the panic: it returns no value, merges
\* nothing and does not decrement components; and every such call that
\* could be made from the current state would end so.
C6_OutOfRangePanics ==
    /\ BadIndex =>
         /\ panicked
         /\ last.ret = <<>>
         /\ components = pre.components
         /\ Reps(parent) = Reps(pre.parent)
    /\ \A p \in Args(n), q \in Args(n) :
         (p \notin Elems \/ q \notin Elems) =>
            /\ p \notin Elems => ~find(parent, p).ok
            /\ ~union(parent, size, components, p, q).ok
            /\ union(parent, size, components, p, q).components = components
            /\ ~connected(parent, p, q).ok

\* C6 witness: connected(p, q) with p in range and q out of range, on a
\* structure that has merged sets, ended in the panic.
C6_Witness ==
    /\ BadIndex
    /\ last.op = "connected"
    /\ last.p \in Elems
    /\ panicked
    /\ components < n

\* C7: for every in-range p the value r returned by find(p) is a
\* representative, parent[r] = r after the call, and find(r) then returns r.
C7_FindReturnsRoot ==
    /\ \A p \in Elems :
         LET f == find(parent, p) IN
         /\ f.ok
         /\ f.parent[f.r] = f.r
         /\ find(f.parent, f.r).ok
         /\ find(f.parent, f.r).r = f.r
    /\ Returned("find") =>
         /\ parent[last.ret[1]] = last.ret[1]
         /\ find(parent, last.ret[1]).r = last.ret[1]

\* C7 witness: find(p) returned a root that was not p's parent before the
\* call (a chain of two links).
C7_Witness ==
    /\ Returned("find")
    /\ last.ret[1] # last.p
    /\ pre.parent[last.p] # last.ret[1]

\* C8: a find or connected call that returns leaves the representative of
\* every element, the value of connected(a, b) for all a and b, components,
\* size() and the whole size vector as they were; only parent entries
\* change.
C8_FindFrame ==
    (Returned("find") \/ Returned("connected")) =>
        /\ size = pre.size
        /\ components = pre.components
        /\ len(parent) = len(pre.parent)
        /\ \A x \in Elems : Root(parent, x) = Root(pre.parent, x)
        /\ \A a, b \in Elems :
             connected(parent, a, b).ret = connected(pre.parent, a, b).ret

\* C8 witness: a find call that rewrote a parent entry.
C8_Witness ==
    /\ Returned("find")
    /\ parent # pre.parent

\* C9: sets never split: every pair for which connected was true when the
\* last call started is a pair for which connected is true now, whatever
\* the call was and however it ended; step by step, a pair once connected
\* is connected in every later state.
C9_NeverSplit ==
    \A p, q \in Elems :
        connected(pre.parent, p, q).ret => connected(parent, p, q).ret

\* C9 witness: a union merged two sets while two other elements were
\* already connected before it.
C9_Witness ==
    /\ Returned("union")
    /\ components = pre.components - 1
    /\ \E p, q \in Elems : p # q /\ Root(pre.parent, p) = Root(pre.parent, q)

\* C10: in every reachable state connected is an equivalence relation on
\* the in-range indices, also when the calls are made one after the other
\* on the parent vector the previous call left: reflexive, symmetric and
\* transitive.
C10_Equivalence ==
    /\ \A p \in Elems : connected(parent, p, p).ret
    /\ \A p, q \in Elems :
         LET c1 == connected(parent, p, q)
             c2 == connected(c1.parent, q, p)
         IN c1.ret = c2.ret /\ c1.ret = connected(parent, q, p).ret
    /\ \A a, b, c \in Elems :
         LET c1 == connected(parent, a, b)
             c2 == connected(c1.parent, b, c)
             c3 == connected(c2.parent, a, c)
         IN (c1.ret /\ c2.ret) => (c3.ret /\ connected(parent, a, c).ret)

\* C10 witness: a connected call returned true and rewrote parent, in a set
\* of at least three elements.
C10_Witness ==
    /\ Returned("connected")
    /\ last.ret = <<TRUE>>
    /\ parent # pre.parent
    /\ \E a, b, c \in Elems :
         /\ a # b /\ b # c /\ a # c
         /\ Root(parent, a) = Root(parent, b)
         /\ Root(parent, b) = Root(parent, c)


\* C11: union is idempotent on what can be observed: whenever a call
\* union(p, q) with in-range p and q has returned, from whatever reachable
\* state it was made, a second union(p, q) made right after it leaves
\* components() and connected(a, b), for all a and b, as the first call
\* left them.
C11_UnionIdempotent ==
    Returned("union") =>
        LET u2 == union(parent, size, components, last.p, last.q) IN
        /\ u2.ok
        /\ u2.components = components
        /\ \A a, b \in Elems :
             connected(u2.parent, a, b).ret = connected(parent, a, b).ret

\* C11 witness: a union just merged two sets, and two sets are left, so
\* the repeated call has something to leave alone.
C11_Witness ==
    /\ Returned("union")
    /\ components = pre.components - 1
    /\ components >= 2
    /\ Root(parent, last.p) = Root(parent, last.q)

\* C12: the universe is fixed: in every reachable state the parent and
\* size vectors both have length n, the argument of new, their indices are
\* 0..n-1, and size() returns n.
C12_UniverseFixed ==
    /\ len(parent) = n
    /\ len(size) = n
    /\ DOMAIN parent = 0..(n - 1)
    /\ DOMAIN size = 0..(n - 1)
    /\ Returned("size") => last.ret = <<n>>

\* C12 witness: size() was called after unions had merged sets.
C12_Witness ==
    /\ Returned("size")
    /\ components < n
    /\ last.ret = <<n>>


\* The elements whose parent chain ends in r.
SetOf(par, r) == {x \in DOMAIN par : Root(par, x) = r}

\* The sum of f over the finite set S.
RECURSIVE Sum(_, _)
Sum(f, S) ==
    IF S = {} THEN 0
    ELSE LET x == CHOOSE y \in S : TRUE IN f[x] + Sum(f, S \ {x})

\* The last call was a union that returned and whose arguments had
\* different roots when it started.
Merged ==
    /\ Returned("union")
    /\ Root(pre.parent, last.p) # Root(pre.parent, last.q)

\* C14: in every reachable state, for every representative r, size[r] is
\* the number of elements whose representative is r, and the sizes at the
\* representatives add up to n.
C14_SizeCountsSet ==
    /\ \A r \in Reps(parent) : size[r] = Cardinality(SetOf(parent, r))
    /\ Sum(size, Reps(parent)) = n

\* C14 witness: a merge left a set of at least three elements and, at an
\* absorbed root, a stale size entry larger than one.
C14_Witness ==
    /\ Merged
    /\ \E r \in Reps(parent) : size[r] >= 3
    /\ \E x \in Elems \ Reps(parent) : size[x] >= 2

\* C15: for a union(p, q) whose roots i = find(p) and j = find(q) differ:
\* if size[i] < size[j] before the merge then afterwards parent[i] = j and
\* j is the representative of the merged set; otherwise (equal sizes
\* included) parent[j] = i and i is the representative of the merged set.
C15_UnionBySize ==
    Merged =>
        LET i == Root(pre.parent, last.p)
            j == Root(pre.parent, last.q)
            both == SetOf(pre.parent, i) \cup SetOf(pre.parent, j)
        IN IF pre.size[i] < pre.size[j]
           THEN /\ parent[i] = j
                /\ parent[j] = j
                /\ \A x \in both : Root(parent, x) = j
           ELSE /\ parent[j] = i
                /\ parent[i] = i
                /\ \A x \in both : Root(parent, x) = i

\* C15 witness: a tie between two sets of two elements, resolved for the
\* root of the first argument.
C15_Witness ==
    /\ Merged
    /\ LET i == Root(pre.parent, last.p)
           j == Root(pre.parent, last.q)
       IN pre.size[i] = 2 /\ pre.size[j] = 2 /\ parent[j] = i

\* C17: a union(p, q) on elements that were already in the same set (p = q
\* included) leaves components, the whole size vector and the set of
\* representatives as they were, and leaves the parent vector that find(p)
\* followed by find(q) leaves.
C17_UnionSameSetNoOp ==
    (Returned("union") /\ Root(pre.parent, last.p) = Root(pre.parent, last.q)) =>
        /\ components = pre.components
        /\ size = pre.size
        /\ Reps(parent) = Reps(pre.parent)
        /\ \A x \in Elems : Root(parent, x) = Root(pre.parent, x)
        /\ parent = find(find(pre.parent, last.p).parent, last.q).parent

\* C17 witness: a union of two different elements of one set that
\* compressed a path.
C17_Witness ==
    /\ Returned("union")
    /\ last.p # last.q
    /\ Root(pre.parent, last.p) = Root(pre.parent, last.q)
    /\ parent # pre.parent

\* C18: a merging union(p, q) changes nothing outside the two sets it
\* merges: every element x whose representative was neither find(p) nor
\* find(q) keeps parent[x], size[x] and its representative; and of the size
\* entries only the one of the new representative is written.
C18_MergeFrame ==
    Merged =>
        LET i == Root(pre.parent, last.p)
            j == Root(pre.parent, last.q)
            rep == Root(parent, last.p)
        IN /\ \A x \in Elems :
                Root(pre.parent, x) \notin {i, j} =>
                    /\ parent[x] = pre.parent[x]
                    /\ size[x] = pre.size[x]
                    /\ Root(parent, x) = Root(pre.parent, x)
           /\ \A x \in Elems : x # rep => size[x] = pre.size[x]
           /\ size[rep] # pre.size[rep]

\* C18 witness: a merge made while a third set of two elements stood by.
C18_Witness ==
    /\ Merged
    /\ \E x \in Elems :
         /\ pre.parent[x] # x
         /\ Root(pre.parent, x) \notin {Root(pre.parent, last.p), Root(pre.parent, last.q)}


\* The number of parent steps from x to a self-pointing index, counted up
\* to k.
RECURSIVE Steps(_, _, _)
Steps(par, x, k) ==
    IF k = 0 \/ par[x] = x THEN 0 ELSE 1 + Steps(par, par[x], k - 1)

\* The depth of x in its tree.
Depth(par, x) == Steps(par, x, len(par))

\* C19: in every reachable state every element x reaches its
\* representative r in at most floor(log2(size[r])) parent steps, that is
\* 2^depth(x) <= size[r]; and a find or connected call never increases the
\* depth of any element.
C19_DepthBound ==
    /\ \A x \in Elems : 2 ^ Depth(parent, x) <= size[Root(parent, x)]
    /\ last.op \in {"find", "connected"} =>
         \A x \in Elems : Depth(parent, x) <= Depth(pre.parent, x)

\* C19 witness: a find brought an element from depth 2, the bound for a
\* set of four, to depth 1.
C19_Witness ==
    /\ Returned("find")
    /\ \E x \in Elems :
         /\ Depth(pre.parent, x) = 2
         /\ size[Root(parent, x)] = 4
         /\ Depth(parent, x) = 1

\* C20: no arithmetic wrap: the decrement `components -= 1` is executed
\* only from components >= 2, so components stays >= 1 for n >= 1 and is 0
\* for n = 0; and every size entry stays within 1..n, so the addition
\* `size[i] += size[j]` never exceeds n.
C20_NoWrap ==
    /\ (Returned("union") /\ components # pre.components) => pre.components >= 2
    /\ Merged => pre.components >= 2
    /\ n >= 1 => components >= 1
    /\ n = 0 => components = 0
    /\ \A i \in Elems : size[i] >= 1 /\ size[i] <= n

\* C20 witness: the last possible merge: components went from 2 to 1 and
\* the size at the surviving root reached n.
C20_Witness ==
    /\ Merged
    /\ pre.components = 2
    /\ components = 1
    /\ n >= 3
    /\ size[Root(parent, last.p)] = n


\* C16: full path compression: when find(p) returns r, every element that
\* lay on the parent path from p to r before the call has parent r after
\* it, and the parent entry of every element off that path is unchanged.
C16_FullCompression ==
    Returned("find") =>
        LET r == last.ret[1]
            path == Chain(pre.parent, last.p, len(pre.parent))
        IN /\ r \in path
           /\ \A x \in Elems :
                IF x \in path THEN parent[x] = r
                ELSE parent[x] = pre.parent[x]

\* C16 witness: find on an element three links below its root rewrote two
\* parent entries.
C16_Witness ==
    /\ Returned("find")
    /\ Depth(pre.parent, last.p) = 3
    /\ Cardinality({x \in Elems : parent[x] # pre.parent[x]}) = 2


\* When a method followed statement by statement has returned, the fields
\* and the returned value are those of the method taken as one step.
StepsAgree ==
    (frame.pc = "idle" /\ ~panicked) =>
        /\ last.op = "find" =>
             LET f == find(pre.parent, last.p) IN
             parent = f.parent /\ last.ret = <<f.r>>
        /\ last.op = "connected" =>
             LET c == connected(pre.parent, last.p, last.q) IN
             parent = c.parent /\ last.ret = <<c.ret>>
        /\ last.op = "union" =>
             LET u == union(pre.parent, pre.size, pre.components, last.p, last.q) IN
             parent = u.parent /\ size = u.size /\ components = u.components

\* C13: in every reachable state, the states inside the loops of find and
\* between the writes of union included, parent is a forest: every
\* parent[e] is an index in 0..n-1 and the parent chain of every element
\* reaches a self-pointing index in at most n-1 steps; and neither loop of
\* find makes more than n-1 iterations (none at all on an out-of-range
\* index, which panics at the first test).
C13_Forest ==
    /\ \A e \in Elems : parent[e] \in 0..(n - 1)
    /\ \A e \in Elems :
         LET t == Follow(parent, e, n - 1) IN parent[t] = t
    /\ (frame.pc \in {"walk", "compress"} /\ frame.p \in Elems) =>
         frame.iter <= n - 1
    /\ (frame.pc \in {"walk", "compress"} /\ frame.cur \notin Elems) =>
         frame.iter = 0

\* C13 witness: inside the compression loop, after two iterations, with
\* parent already rewritten and the loop not yet left.
C13_Witness ==
    /\ frame.pc = "compress"
    /\ frame.iter = 2
    /\ parent # pre.parent

====
